---- MODULE Spec2Model ----
(***************************************************************************)
(* Model of @northscaler/rbac: AbstractRoleBasedAccessControlRepository    *)
(* and its concrete subclass MethodAccessControlRepository.                *)
(*                                                                         *)
(* Strings are sequences of tokens: a token is either a word (a non-empty  *)
(* run of characters that are not line terminators, such as "Manager") or  *)
(* the line terminator LF.  The empty string is the empty sequence.        *)
(*                                                                         *)
(* JavaScript values are records [type, b, n, name]: `type` is the result  *)
(* of typeof (with "null" and "array" told apart), `b` the value of a      *)
(* boolean, `n` the value of a number, `name` the content of a string or   *)
(* the name of a function.                                                 *)
(***************************************************************************)
EXTENDS Integers, Sequences, FiniteSets, TLC

VARIABLES
    arg,        \* the argument handed to `new MethodAccessControlRepository(arg)`
    pc,         \* the caller's position: "new", "ready", "failed", "called"
    error,      \* the error thrown by the constructor, or "none"
    _policy,    \* this._policy of the constructed repository
    call,       \* the interrogation in progress / last returned
    result,     \* the boolean the interrogation returned
    evals,      \* the strategy functions the interrogation invoked, in order
    callersList,\* the caller's own policy array, as it is now
    lastIndex,  \* lastIndex of the RegExp objects of each policy entry
    noted       \* an earlier interrogation of this repository and its answer

aux == <<callersList, lastIndex, noted>>
vars == <<arg, pc, error, _policy, call, result, evals, callersList, lastIndex, noted>>

(***************************************************************************)
(* Bounds of the model.                                                    *)
(***************************************************************************)
MaxPolicyLen == 2
MaxRoles == 2

(***************************************************************************)
(* Strings.                                                                *)
(***************************************************************************)
LF == "\n"
EmptyString == << >>
Str(word) == << word >>

\* the role names, class names and method names callers pass
RoleNames == { EmptyString, Str("Manager"), Str("Teller"), << "Manager", LF >> }
ListRoleNames == { Str("Manager"), Str("Teller") }
Securables ==
    { [class |-> Str("Foo"), method |-> Str("bar")],
      [class |-> Str("Foo"), method |-> Str("snafu")],
      [class |-> << "Foo", LF >>, method |-> Str("bar")] }

highValueThreshold == 10000
Datas == { [balance |-> 0], [balance |-> highValueThreshold] }

(***************************************************************************)
(* Regular expressions (no flags): /^.+$/, /^.*$/ and /^word$/.            *)
(* `Undefined` stands for an absent property.                              *)
(***************************************************************************)
NoRegExp == [kind |-> "undefined", lit |-> EmptyString]
DotPlus == [kind |-> "dotplus", lit |-> EmptyString]
DotStar == [kind |-> "dotstar", lit |-> EmptyString]
Lit(word) == [kind |-> "lit", lit |-> Str(word)]

\* `.` matches any character except a line terminator
NoLineTerminator(s) == \A i \in 1..Len(s) : s[i] # LF

\* RegExp.prototype.test on a string
Test(re, s) ==
    CASE re.kind = "dotplus" -> Len(s) >= 1 /\ NoLineTerminator(s)
      [] re.kind = "dotstar" -> NoLineTerminator(s)
      [] re.kind = "lit" -> s = re.lit

(***************************************************************************)
(* JavaScript values.                                                      *)
(***************************************************************************)
Undefined == [type |-> "undefined", b |-> FALSE, n |-> 0, name |-> ""]
Null == [type |-> "object-null", b |-> FALSE, n |-> 0, name |-> ""]
Bool(b) == [type |-> "boolean", b |-> b, n |-> 0, name |-> ""]
Num(n) == [type |-> "number", b |-> FALSE, n |-> n, name |-> ""]
StringValue(name) == [type |-> "string", b |-> FALSE, n |-> 0, name |-> name]
Fn(name) == [type |-> "function", b |-> FALSE, n |-> 0, name |-> name]
Obj == [type |-> "object", b |-> FALSE, n |-> 0, name |-> ""]
Array == [type |-> "array", b |-> FALSE, n |-> 0, name |-> ""]

\* ToBoolean, as applied by `!x` and `x || y`
Truthy(v) ==
    CASE v.type = "undefined" -> FALSE
      [] v.type = "object-null" -> FALSE
      [] v.type = "boolean" -> v.b
      [] v.type = "number" -> v.n # 0
      [] v.type = "string" -> v.name # ""
      [] OTHER -> TRUE

\* a RegExp object is truthy, an absent property is not
RegExpTruthy(re) == re.kind # "undefined"

(***************************************************************************)
(* Strategy functions found in the repository's policies.                  *)
(***************************************************************************)
\* it => it?.role === manager || it?.role === owner
managerOrOwner(role, securable, data) ==
    role = Str("Manager") \/ role = Str("Owner")

\* "Only Managers can close high-value accounts"
highValueStrategy(role, securable, data) ==
    CASE role = Str("Teller") -> data.balance < highValueThreshold
      [] role = Str("Manager") -> TRUE
      [] OTHER -> FALSE

\* it.strategy({ role, securable, data })
CallStrategy(fn, role, securable, data) ==
    CASE fn.name = "managerOrOwner" -> managerOrOwner(role, securable, data)
      [] fn.name = "highValueStrategy" -> highValueStrategy(role, securable, data)

(***************************************************************************)
(* Policies.                                                               *)
(***************************************************************************)
\* default-method-policy.js
DEFAULT_POLICY ==
    << [roles |-> DotStar, classes |-> DotStar, methods |-> DotStar,
        strategy |-> Bool(TRUE)] >>

\* the values authors give the properties of a raw policy entry
RawRoles == { NoRegExp, Lit("Manager") }
RawStrategies ==
    { Undefined, Bool(TRUE), Bool(FALSE), Fn("managerOrOwner"),
      Fn("highValueStrategy"), StringValue("./strategy") }
RawEntries ==
    { [roles |-> r, classes |-> Lit("Foo"), methods |-> Lit("bar"), strategy |-> st] :
        r \in RawRoles, st \in RawStrategies }
      \cup { [roles |-> NoRegExp, classes |-> DotStar, methods |-> DotStar,
              strategy |-> st] : st \in { Bool(TRUE), Bool(FALSE) } }

SeqsUpTo(S, n) == UNION { [1..k -> S] : k \in 0..n }

\* what a caller can hand to the constructor
NonLists ==
    { Null, Num(0), Num(1), StringValue(""), StringValue("policy"),
      Bool(FALSE), Bool(TRUE), Obj }
Args ==
    { [value |-> Undefined, items |-> << >>] }
      \cup { [value |-> v, items |-> << >>] : v \in NonLists }
      \cup { [value |-> Array, items |-> l] : l \in SeqsUpTo(RawEntries, MaxPolicyLen) }

ArgTruthy(a) == Truthy(a.value)
IsArray(a) == a.value.type = "array"

\* faulty variant: an absent role pattern defaults to /^.*$/
_scrubPolicy_RolesDefaultDotStar(policy) ==
    [i \in 1..Len(policy) |->
        [policy[i] EXCEPT
            !.roles = IF RegExpTruthy(@) THEN @ ELSE DotStar,
            !.strategy = IF Truthy(@) THEN @ ELSE Bool(FALSE)]]

\* faulty variant: an absent strategy defaults to true
_scrubPolicy_StrategyDefaultTrue(policy) ==
    [i \in 1..Len(policy) |->
        [policy[i] EXCEPT
            !.roles = IF RegExpTruthy(@) THEN @ ELSE DotPlus,
            !.strategy = IF Truthy(@) THEN @ ELSE Bool(TRUE)]]

_scrubPolicy(policy) ==
    [i \in 1..Len(policy) |->
        [policy[i] EXCEPT
            !.roles = IF RegExpTruthy(@) THEN @ ELSE DotPlus,
            !.strategy = IF Truthy(@) THEN @ ELSE Bool(FALSE)]]

\* the constructor of AbstractRoleBasedAccessControlRepository:
\* the error it throws, or "none", and this._policy
AbstractConstructor(policy) ==
    IF ~ArgTruthy(policy)
    THEN [error |-> "MissingRequiredArgumentError", policy |-> << >>]
    ELSE IF ~IsArray(policy)
    THEN [error |-> "IllegalArgumentError", policy |-> << >>]
    ELSE [error |-> "none", policy |-> _scrubPolicy(policy.items)]

\* faulty variant: super(policy), no default policy
MethodConstructor_NoDefault(policy) == AbstractConstructor(policy)

\* the constructor of MethodAccessControlRepository: super(policy || DEFAULT_POLICY)
MethodConstructor(policy) ==
    AbstractConstructor(
        IF ArgTruthy(policy) THEN policy
        ELSE [value |-> Array, items |-> DEFAULT_POLICY])

(***************************************************************************)
(* Entry filtering.                                                        *)
(***************************************************************************)
_filterRoles(entry, role) ==
    ~RegExpTruthy(entry.roles) \/ Test(entry.roles, role)

\* MethodAccessControlRepository._filterSecurable
_filterSecurable(entry, securable) ==
    Test(entry.classes, securable.class) /\ Test(entry.methods, securable.method)

\* faulty variant: || in place of &&
_findEntries_Either(policy, role, securable) ==
    SelectSeq(policy,
        LAMBDA entry : _filterRoles(entry, role) \/ _filterSecurable(entry, securable))

_findEntries(policy, role, securable) ==
    SelectSeq(policy,
        LAMBDA entry : _filterRoles(entry, role) /\ _filterSecurable(entry, securable))

(***************************************************************************)
(* Strategy interrogation.  Every operator returns the boolean the method  *)
(* returns together with the strategy invocations it made, in order.       *)
(***************************************************************************)
Invocation(it, role, securable, data) ==
    [fn |-> it.strategy.name, role |-> role, securable |-> securable, data |-> data]

\* faulty variant: a boolean strategy of the other polarity ends the scan
RECURSIVE _interrogate_StopsAtOtherBoolean(_, _, _, _, _)
_interrogate_StopsAtOtherBoolean(entries, role, securable, data, permit) ==
    IF entries = << >>
    THEN [result |-> FALSE, evals |-> << >>]
    ELSE LET it == Head(entries)
         IN  IF it.strategy.type = "boolean"
             THEN [result |-> it.strategy.b = permit, evals |-> << >>]
             ELSE IF it.strategy.type = "function"
             THEN LET permitted == CallStrategy(it.strategy, role, securable, data)
                      here == << Invocation(it, role, securable, data) >>
                  IN  IF permit /\ permitted
                      THEN [result |-> TRUE, evals |-> here]
                      ELSE IF ~permit /\ ~permitted
                      THEN [result |-> FALSE, evals |-> here]
                      ELSE LET rest == _interrogate_StopsAtOtherBoolean(
                                           Tail(entries), role, securable, data, permit)
                           IN  [result |-> rest.result, evals |-> here \o rest.evals]
             ELSE _interrogate_StopsAtOtherBoolean(
                      Tail(entries), role, securable, data, permit)

\* faulty variant: the deny scan goes on after a predicate returned false
RECURSIVE _interrogate_ContinuesAfterFalse(_, _, _, _, _)
_interrogate_ContinuesAfterFalse(entries, role, securable, data, permit) ==
    IF entries = << >>
    THEN [result |-> FALSE, evals |-> << >>]
    ELSE LET it == Head(entries)
         IN  IF it.strategy.type = "boolean" /\ it.strategy.b = permit
             THEN [result |-> TRUE, evals |-> << >>]
             ELSE IF it.strategy.type = "function"
             THEN LET permitted == CallStrategy(it.strategy, role, securable, data)
                      here == << Invocation(it, role, securable, data) >>
                  IN  IF permit /\ permitted
                      THEN [result |-> TRUE, evals |-> here]
                      ELSE LET rest == _interrogate_ContinuesAfterFalse(
                                           Tail(entries), role, securable, data, permit)
                           IN  [result |-> rest.result, evals |-> here \o rest.evals]
             ELSE _interrogate_ContinuesAfterFalse(
                      Tail(entries), role, securable, data, permit)

\* faulty variant: any boolean strategy answers the scan, whatever its polarity
RECURSIVE _interrogate_AnyBoolean(_, _, _, _, _)
_interrogate_AnyBoolean(entries, role, securable, data, permit) ==
    IF entries = << >>
    THEN [result |-> FALSE, evals |-> << >>]
    ELSE LET it == Head(entries)
         IN  IF it.strategy.type = "boolean"
             THEN [result |-> TRUE, evals |-> << >>]
             ELSE IF it.strategy.type = "function"
             THEN LET permitted == CallStrategy(it.strategy, role, securable, data)
                      here == << Invocation(it, role, securable, data) >>
                  IN  IF permit /\ permitted
                      THEN [result |-> TRUE, evals |-> here]
                      ELSE IF ~permit /\ ~permitted
                      THEN [result |-> FALSE, evals |-> here]
                      ELSE LET rest == _interrogate_AnyBoolean(
                                           Tail(entries), role, securable, data, permit)
                           IN  [result |-> rest.result, evals |-> here \o rest.evals]
             ELSE _interrogate_AnyBoolean(Tail(entries), role, securable, data, permit)

\* faulty variant: a strategy that is no function answers by its truthiness
RECURSIVE _interrogate_TruthyStrategy(_, _, _, _, _)
_interrogate_TruthyStrategy(entries, role, securable, data, permit) ==
    IF entries = << >>
    THEN [result |-> FALSE, evals |-> << >>]
    ELSE LET it == Head(entries)
         IN  IF it.strategy.type # "function" /\ Truthy(it.strategy) = permit
             THEN [result |-> TRUE, evals |-> << >>]
             ELSE IF it.strategy.type = "function"
             THEN LET permitted == CallStrategy(it.strategy, role, securable, data)
                      here == << Invocation(it, role, securable, data) >>
                  IN  IF permit /\ permitted
                      THEN [result |-> TRUE, evals |-> here]
                      ELSE IF ~permit /\ ~permitted
                      THEN [result |-> FALSE, evals |-> here]
                      ELSE LET rest == _interrogate_TruthyStrategy(
                                           Tail(entries), role, securable, data, permit)
                           IN  [result |-> rest.result, evals |-> here \o rest.evals]
             ELSE _interrogate_TruthyStrategy(Tail(entries), role, securable, data, permit)

RECURSIVE _interrogate(_, _, _, _, _)
_interrogate(entries, role, securable, data, permit) ==
    IF entries = << >>
    THEN [result |-> FALSE, evals |-> << >>]
    ELSE LET it == Head(entries)
         IN  IF it.strategy.type = "boolean" /\ it.strategy.b = permit
             THEN [result |-> TRUE, evals |-> << >>]
             ELSE IF it.strategy.type = "function"
             THEN LET permitted == CallStrategy(it.strategy, role, securable, data)
                      here == << Invocation(it, role, securable, data) >>
                  IN  IF permit /\ permitted
                      THEN [result |-> TRUE, evals |-> here]
                      ELSE IF ~permit /\ ~permitted
                      THEN [result |-> FALSE, evals |-> here]
                      ELSE LET rest == _interrogate(Tail(entries), role, securable, data, permit)
                           IN  [result |-> rest.result, evals |-> here \o rest.evals]
             ELSE _interrogate(Tail(entries), role, securable, data, permit)

\* faulty variant: the grant scan is not handed the request's data
_permits_DropsData(entries, role, securable, data) ==
    _interrogate(entries, role, securable, [balance |-> 0], TRUE)

_permits(entries, role, securable, data) ==
    _interrogate(entries, role, securable, data, TRUE)

_explicitlyDenies(entries, role, securable, data) ==
    _interrogate(entries, role, securable, data, FALSE)

\* explicitlyDenies with a single role name
explicitlyDeniesOne(policy, role, securable, data) ==
    _explicitlyDenies(_findEntries(policy, role, securable), role, securable, data)

\* faulty variant: permits is the grant scan alone
permitsOne_GrantScanOnly(policy, role, securable, data) ==
    _permits(_findEntries(policy, role, securable), role, securable, data)

\* permits with a single role name
permitsOne(policy, role, securable, data) ==
    LET entries == _findEntries(policy, role, securable)
        denied == _explicitlyDenies(entries, role, securable, data)
        permitted == _permits(entries, role, securable, data)
    IN  IF denied.result
        THEN [result |-> FALSE, evals |-> denied.evals]
        ELSE [result |-> permitted.result, evals |-> denied.evals \o permitted.evals]

\* role.map(it => this.explicitlyDenies({ role: it, securable, data }))
RECURSIVE MapExplicitlyDenies(_, _, _, _)
MapExplicitlyDenies(policy, roles, securable, data) ==
    IF roles = << >>
    THEN [results |-> << >>, evals |-> << >>]
    ELSE LET first == explicitlyDeniesOne(policy, Head(roles), securable, data)
             rest == MapExplicitlyDenies(policy, Tail(roles), securable, data)
         IN  [results |-> << first.result >> \o rest.results,
              evals |-> first.evals \o rest.evals]

\* role.map(it => this.permits({ role: it, securable, data }))
RECURSIVE MapPermits(_, _, _, _)
MapPermits(policy, roles, securable, data) ==
    IF roles = << >>
    THEN [results |-> << >>, evals |-> << >>]
    ELSE LET first == permitsOne(policy, Head(roles), securable, data)
             rest == MapPermits(policy, Tail(roles), securable, data)
         IN  [results |-> << first.result >> \o rest.results,
              evals |-> first.evals \o rest.evals]

\* Array.prototype.includes(true)
IncludesTrue(results) == \E i \in 1..Len(results) : results[i] = TRUE

\* the role of a request: a single role name or a list of role names
RoleName(name) == [type |-> "string", name |-> name, list |-> << >>]
RoleList(list) == [type |-> "array", name |-> EmptyString, list |-> list]
RoleIsArray(role) == role.type = "array"

\* faulty variant: a list of roles is permitted as soon as one role is
permits_ListIgnoresDenials(policy, role, securable, data) ==
    IF RoleIsArray(role)
    THEN LET grants == MapPermits(policy, role.list, securable, data)
         IN  [result |-> IncludesTrue(grants.results), evals |-> grants.evals]
    ELSE permitsOne(policy, role.name, securable, data)

permits(policy, role, securable, data) ==
    IF RoleIsArray(role)
    THEN LET denies == MapExplicitlyDenies(policy, role.list, securable, data)
             grants == MapPermits(policy, role.list, securable, data)
         IN  IF IncludesTrue(denies.results)
             THEN [result |-> FALSE, evals |-> denies.evals]
             ELSE [result |-> IncludesTrue(grants.results),
                   evals |-> denies.evals \o grants.evals]
    ELSE permitsOne(policy, role.name, securable, data)

explicitlyDenies(policy, role, securable, data) ==
    IF RoleIsArray(role)
    THEN LET results == MapExplicitlyDenies(policy, role.list, securable, data)
         IN  [result |-> IncludesTrue(results.results), evals |-> results.evals]
    ELSE explicitlyDeniesOne(policy, role.name, securable, data)

(***************************************************************************)
(* The state machine: a caller constructs a repository, then interrogates  *)
(* it any number of times.                                                 *)
(***************************************************************************)
Roles ==
    { RoleName(r) : r \in RoleNames }
      \cup { RoleList(l) : l \in SeqsUpTo(ListRoleNames, MaxRoles) }

NoCall ==
    [op |-> "none", role |-> RoleName(EmptyString),
     securable |-> [class |-> EmptyString, method |-> EmptyString],
     data |-> [balance |-> 0]]

\* lastIndex of a fresh RegExp object is 0
FreshIndex == [roles |-> 0, classes |-> 0, methods |-> 0]
NothingNoted == [call |-> NoCall, result |-> FALSE]

InitWith(a) ==
    /\ arg = a
    /\ pc = "new"
    /\ error = "none"
    /\ _policy = << >>
    /\ call = NoCall
    /\ result = FALSE
    /\ evals = << >>
    /\ callersList = a.items
    /\ lastIndex = [i \in 1..Len(a.items) |-> FreshIndex]
    /\ noted = NothingNoted

Init == \E a \in Args : InitWith(a)

\* new MethodAccessControlRepository(arg)
Construct ==
    /\ pc = "new"
    /\ LET made == MethodConstructor(arg)
       IN  /\ error' = made.error
           /\ _policy' = made.policy
           /\ pc' = IF made.error = "none" THEN "ready" ELSE "failed"
    /\ UNCHANGED <<arg, call, result, evals>>
    /\ UNCHANGED aux

\* repo.permits({ role, securable, data })
Permits ==
    /\ pc = "ready"
    /\ \E role \in Roles, securable \in Securables, data \in Datas :
        LET answer == permits(_policy, role, securable, data)
        IN  /\ call' = [op |-> "permits", role |-> role, securable |-> securable,
                        data |-> data]
            /\ result' = answer.result
            /\ evals' = answer.evals
    /\ pc' = "called"
    /\ UNCHANGED <<arg, error, _policy>>
    /\ UNCHANGED aux

\* repo.explicitlyDenies({ role, securable, data })
ExplicitlyDenies ==
    /\ pc = "ready"
    /\ \E role \in Roles, securable \in Securables, data \in Datas :
        LET answer == explicitlyDenies(_policy, role, securable, data)
        IN  /\ call' = [op |-> "explicitlyDenies", role |-> role,
                        securable |-> securable, data |-> data]
            /\ result' = answer.result
            /\ evals' = answer.evals
    /\ pc' = "called"
    /\ UNCHANGED <<arg, error, _policy>>
    /\ UNCHANGED aux

\* the caller takes the answer; the request is discarded
Return ==
    /\ pc = "called"
    /\ pc' = "ready"
    /\ call' = NoCall
    /\ result' = FALSE
    /\ evals' = << >>
    /\ UNCHANGED <<arg, error, _policy>>
    /\ UNCHANGED aux

Next == Construct \/ Permits \/ ExplicitlyDenies \/ Return

Spec == Init /\ [][Next]_vars

(***************************************************************************)
(* Vocabulary of the properties, stated over the entries of this._policy   *)
(* without reference to the scan.                                          *)
(***************************************************************************)
Called(op) == pc = "called" /\ call.op = op
SingleRole == call.role.type = "string"
RequestRoles ==
    IF RoleIsArray(call.role)
    THEN { call.role.list[i] : i \in 1..Len(call.role.list) }
    ELSE { call.role.name }

\* the entry's role pattern and securable patterns both match
Matches(entry, role) ==
    /\ Test(entry.roles, role)
    /\ Test(entry.classes, call.securable.class)
    /\ Test(entry.methods, call.securable.method)
MatchingIdx(role) == { i \in 1..Len(_policy) : Matches(_policy[i], role) }

IsGrant(entry) == entry.strategy = Bool(TRUE)
IsDeny(entry) == entry.strategy = Bool(FALSE)
IsPredicate(entry) == entry.strategy.type = "function"
PredicateAnswer(entry, role) ==
    CallStrategy(entry.strategy, role, call.securable, call.data)
PredicateTrue(entry, role) == IsPredicate(entry) /\ PredicateAnswer(entry, role)
PredicateFalse(entry, role) == IsPredicate(entry) /\ ~PredicateAnswer(entry, role)

\* some matching entry grants: strategy true, or a predicate that returns true
GrantFound(role) ==
    \E i \in MatchingIdx(role) : IsGrant(_policy[i]) \/ PredicateTrue(_policy[i], role)

\* some matching entry has strategy false
DenyPresent(role) == \E i \in MatchingIdx(role) : IsDeny(_policy[i])

\* a matching entry with strategy false that no predicate returning false precedes
DenyReached(role) ==
    \E i \in MatchingIdx(role) :
        /\ IsDeny(_policy[i])
        /\ \A j \in MatchingIdx(role) : j < i => ~PredicateFalse(_policy[j], role)

(***************************************************************************)
(* C1, as stated: for a single-role request, if the matching entries       *)
(* include at least one entry with strategy false, explicitlyDenies        *)
(* returns true and permits returns false, whatever other matching         *)
(* entries precede or follow it.                                           *)
(***************************************************************************)
C1_AnyDenialDenies ==
    (pc = "called" /\ SingleRole /\ DenyPresent(call.role.name))
        => /\ call.op = "explicitlyDenies" => result = TRUE
           /\ call.op = "permits" => result = FALSE

(***************************************************************************)
(* C1, amended: for a single-role request, if the matching entries include *)
(* an entry with strategy false that is not preceded by a matching         *)
(* predicate returning false, explicitlyDenies returns true and permits    *)
(* returns false, whatever other matching entries precede or follow it.    *)
(***************************************************************************)
C1_ReachedDenialDenies ==
    (pc = "called" /\ SingleRole /\ DenyReached(call.role.name))
        => /\ call.op = "explicitlyDenies" => result = TRUE
           /\ call.op = "permits" => result = FALSE

\* a grant precedes the denying entry and explicitlyDenies still answers true
C1_Witness ==
    /\ Called("explicitlyDenies") /\ SingleRole /\ result = TRUE
    /\ \E i, j \in MatchingIdx(call.role.name) :
        i < j /\ IsGrant(_policy[i]) /\ IsDeny(_policy[j])

(***************************************************************************)
(* C2, as stated: for a single role name, permits returns exactly the      *)
(* result of the grant-polarity scan: true iff some matching entry is a    *)
(* Grant or a Predicate returning true; a Deny elsewhere changes nothing.  *)
(***************************************************************************)
C2_PermitsIsGrantScan ==
    (Called("permits") /\ SingleRole)
        => result = GrantFound(call.role.name)

(***************************************************************************)
(* C2, amended: for a single role name, permits returns true iff some      *)
(* matching entry is a Grant or a Predicate returning true AND the         *)
(* deny-polarity scan over the same entries does not answer true; a Deny   *)
(* entry the deny scan reaches (a Grant followed by a later Deny, or       *)
(* [Grant, Grant, Deny]) makes permits false.                              *)
(***************************************************************************)
C2_PermitsIsGrantAndNotDenied ==
    (Called("permits") /\ SingleRole)
        => result = (GrantFound(call.role.name) /\ ~DenyReached(call.role.name))

\* a Grant followed by a later Deny: permits answers false
C2_Witness ==
    /\ Called("permits") /\ SingleRole /\ result = FALSE
    /\ \E i, j \in MatchingIdx(call.role.name) :
        /\ i < j /\ IsGrant(_policy[i]) /\ IsDeny(_policy[j])
        /\ \A k \in MatchingIdx(call.role.name) : k < i => IsGrant(_policy[k])

(***************************************************************************)
(* C3: deny-polarity short-circuit.  For a single-role request, if a       *)
(* matching Predicate returns false and every matching entry before it is  *)
(* a Grant or a Predicate returning true, explicitlyDenies returns false,  *)
(* even when a later matching entry has strategy Deny, and the scan        *)
(* evaluates no entry after that predicate.                                *)
(***************************************************************************)
C3_DenyScanStopsAtFalsePredicate ==
    (Called("explicitlyDenies") /\ SingleRole)
        => \A k \in MatchingIdx(call.role.name) :
            ( /\ PredicateFalse(_policy[k], call.role.name)
              /\ \A j \in MatchingIdx(call.role.name) :
                    j < k => IsGrant(_policy[j]) \/ PredicateTrue(_policy[j], call.role.name) )
            => /\ result = FALSE
               /\ Len(evals) = Cardinality({ j \in MatchingIdx(call.role.name) :
                                               j <= k /\ IsPredicate(_policy[j]) })
               /\ evals[Len(evals)].fn = _policy[k].strategy.name

\* the predicate answers false and a Deny entry follows it
C3_Witness ==
    /\ Called("explicitlyDenies") /\ SingleRole /\ result = FALSE
    /\ \E k, d \in MatchingIdx(call.role.name) :
        /\ k < d
        /\ PredicateFalse(_policy[k], call.role.name)
        /\ IsDeny(_policy[d])
        /\ \A j \in MatchingIdx(call.role.name) :
              j < k => IsGrant(_policy[j]) \/ PredicateTrue(_policy[j], call.role.name)

(***************************************************************************)
(* C4: role-list aggregation.  permits with a list of roles (the empty     *)
(* list and lists with repeated roles included) returns true iff no role   *)
(* of the list yields explicitlyDenies = true when asked alone and at      *)
(* least one role of the list yields permits = true when asked alone.      *)
(***************************************************************************)
C4_RoleListAggregation ==
    (Called("permits") /\ RoleIsArray(call.role))
        => LET list == call.role.list
               deniedAlone(r) ==
                   explicitlyDenies(_policy, RoleName(r), call.securable, call.data).result
               permittedAlone(r) ==
                   permits(_policy, RoleName(r), call.securable, call.data).result
           IN  result = ( /\ \A i \in 1..Len(list) : ~deniedAlone(list[i])
                          /\ \E i \in 1..Len(list) : permittedAlone(list[i]) )

\* one role of the list is permitted alone, another is explicitly denied: false
C4_Witness ==
    /\ Called("permits") /\ RoleIsArray(call.role) /\ result = FALSE
    /\ \E i, j \in 1..Len(call.role.list) :
        /\ permits(_policy, RoleName(call.role.list[i]), call.securable, call.data).result
        /\ explicitlyDenies(_policy, RoleName(call.role.list[j]), call.securable,
                            call.data).result

(***************************************************************************)
(* C5: default deny.  When no policy entry has both a role pattern that    *)
(* matches a requested role and a securable match, permits returns false   *)
(* and explicitlyDenies returns false.                                     *)
(***************************************************************************)
C5_DefaultDeny ==
    (pc = "called" /\ \A r \in RequestRoles : MatchingIdx(r) = {})
        => result = FALSE

\* an entry's role pattern matches the requested role, its securable does not
C5_Witness ==
    /\ Called("permits") /\ SingleRole /\ result = FALSE
    /\ MatchingIdx(call.role.name) = {}
    /\ \E i \in 1..Len(_policy) : Test(_policy[i].roles, call.role.name)

(***************************************************************************)
(* C6, as stated: constructing the engine with an absent policy yields the *)
(* default allow-all policy, against which permits returns true and        *)
(* explicitlyDenies false for every role value and every securable.        *)
(***************************************************************************)
C6_DefaultPermitsEverything ==
    (arg.value = Undefined /\ pc # "new")
        => /\ pc # "failed" /\ _policy = DEFAULT_POLICY
           /\ Called("permits") => result = TRUE
           /\ Called("explicitlyDenies") => result = FALSE

(***************************************************************************)
(* C6, amended: constructing the engine with an absent policy yields the   *)
(* default allow-all policy; against it explicitlyDenies returns false for *)
(* every request, and permits returns true for every single role name      *)
(* (the empty string included) and every non-empty list of role names,     *)
(* provided the role names, the class and the method contain no line       *)
(* terminator; permits returns false for the empty list and for a role     *)
(* name, class or method that contains a line terminator.                  *)
(***************************************************************************)
C6_DefaultPermitsLineFreeNames ==
    (arg.value = Undefined /\ pc # "new")
        => /\ pc # "failed" /\ _policy = DEFAULT_POLICY
           /\ Called("explicitlyDenies") => result = FALSE
           /\ Called("permits") =>
                result = ( /\ NoLineTerminator(call.securable.class)
                           /\ NoLineTerminator(call.securable.method)
                           /\ \E r \in RequestRoles : NoLineTerminator(r) )

\* the default policy permits a list of roles
C6_Witness ==
    /\ arg.value = Undefined /\ _policy = DEFAULT_POLICY
    /\ Called("permits") /\ RoleIsArray(call.role) /\ result = TRUE

(***************************************************************************)
(* C7: engine construction fails with an error for every policy argument   *)
(* that is present but not a list, truthy or falsy (a number, a string, a  *)
(* boolean, a plain object); only an absent argument selects the default   *)
(* policy.  null is counted as absent here.                                *)
(***************************************************************************)
C7_NonListFailsFast ==
    (pc # "new" /\ arg.value.type \notin { "undefined", "object-null", "array" })
        => pc = "failed" /\ error # "none"

(***************************************************************************)
(* C8, as stated: an entry authored without a role pattern passes the role *)
(* filter for every role name, the empty string included, so with a        *)
(* matching securable and strategy true permits is true for every role.    *)
(***************************************************************************)
AuthoredWithoutRoles(i) == IsArray(arg) /\ arg.items[i].roles = NoRegExp

C8_NoRolesMatchesEveryString ==
    (pc = "called" /\ SingleRole)
        => \A i \in 1..Len(_policy) :
            AuthoredWithoutRoles(i) => _filterRoles(_policy[i], call.role.name)

(***************************************************************************)
(* C8, amended: an entry authored without a role pattern passes the role   *)
(* filter for exactly the role names that are non-empty and contain no     *)
(* line terminator, so with a matching securable and strategy true, and    *)
(* no explicit denial of the request, permits is true for every such role. *)
(***************************************************************************)
C8_NoRolesMatchesNonEmptyLineFree ==
    (pc = "called" /\ SingleRole)
        => \A i \in 1..Len(_policy) :
            AuthoredWithoutRoles(i)
            => /\ _filterRoles(_policy[i], call.role.name)
                    <=> (call.role.name # EmptyString /\ NoLineTerminator(call.role.name))
               /\ ( /\ call.op = "permits"
                    /\ call.role.name # EmptyString /\ NoLineTerminator(call.role.name)
                    /\ arg.items[i].strategy = Bool(TRUE)
                    /\ _filterSecurable(_policy[i], call.securable)
                    /\ ~DenyReached(call.role.name) )
                  => result = TRUE

\* a role no pattern names is permitted by the entry without a role pattern
C8_Witness ==
    /\ Called("permits") /\ SingleRole /\ result = TRUE
    /\ call.role.name = Str("Teller")
    /\ \E i \in MatchingIdx(call.role.name) :
        AuthoredWithoutRoles(i) /\ arg.items[i].strategy = Bool(TRUE)

(***************************************************************************)
(* C9: an entry authored without a strategy is normalized to Deny and      *)
(* behaves exactly like an entry with strategy false: every request gets   *)
(* the answer it would get had the strategy been written as false; with it *)
(* as the only matching entry explicitlyDenies is true and permits false.  *)
(***************************************************************************)
WrittenAsFalse(items) ==
    [i \in 1..Len(items) |->
        IF items[i].strategy = Undefined
        THEN [items[i] EXCEPT !.strategy = Bool(FALSE)]
        ELSE items[i]]

C9_AbsentStrategyIsDeny ==
    (pc = "called" /\ IsArray(arg))
        => LET written == _scrubPolicy(WrittenAsFalse(arg.items))
               answer ==
                   IF call.op = "permits"
                   THEN permits(written, call.role, call.securable, call.data)
                   ELSE explicitlyDenies(written, call.role, call.securable, call.data)
           IN  /\ \A i \in 1..Len(_policy) :
                    arg.items[i].strategy = Undefined => _policy[i].strategy = Bool(FALSE)
               /\ result = answer.result
               /\ \A i \in 1..Len(_policy) :
                    ( /\ SingleRole
                      /\ MatchingIdx(call.role.name) = { i }
                      /\ arg.items[i].strategy = Undefined )
                    => /\ call.op = "explicitlyDenies" => result = TRUE
                       /\ call.op = "permits" => result = FALSE

\* the only matching entry was authored without a strategy
C9_Witness ==
    /\ Called("explicitlyDenies") /\ SingleRole /\ IsArray(arg) /\ result = TRUE
    /\ \E i \in 1..Len(_policy) :
        MatchingIdx(call.role.name) = { i } /\ arg.items[i].strategy = Undefined

(***************************************************************************)
(* C10: when exactly one entry matches role R and securable S and its      *)
(* strategy is a boolean: Grant gives permits true and explicitlyDenies    *)
(* false; Deny gives explicitlyDenies true and permits false.              *)
(***************************************************************************)
C10_SingleBooleanEntryDecides ==
    (pc = "called" /\ SingleRole)
        => \A i \in 1..Len(_policy) :
            MatchingIdx(call.role.name) = { i }
            => /\ IsGrant(_policy[i]) =>
                    /\ call.op = "permits" => result = TRUE
                    /\ call.op = "explicitlyDenies" => result = FALSE
               /\ IsDeny(_policy[i]) =>
                    /\ call.op = "explicitlyDenies" => result = TRUE
                    /\ call.op = "permits" => result = FALSE

\* a policy of two entries, of which only the Grant matches the request
C10_Witness ==
    /\ Called("permits") /\ SingleRole /\ result = TRUE /\ Len(_policy) = 2
    /\ \E i \in 1..Len(_policy) :
        MatchingIdx(call.role.name) = { i } /\ IsGrant(_policy[i])

(***************************************************************************)
(* C14: every strategy invocation receives a single role name, the role    *)
(* whose filtered entries are being scanned, together with the request's   *)
(* securable and data unchanged; with a list of roles the strategy is      *)
(* handed one role of the list, never the list; and it is invoked only for *)
(* entries whose role pattern and securable match that role.               *)
(***************************************************************************)
C14_StrategyGetsTheScannedRole ==
    pc = "called"
        => \A k \in 1..Len(evals) :
            /\ evals[k].role \in RequestRoles
            /\ evals[k].securable = call.securable
            /\ evals[k].data = call.data
            /\ \E i \in MatchingIdx(evals[k].role) :
                _policy[i].strategy = Fn(evals[k].fn)

\* a list of two roles: the strategy was called with each of them, and data
C14_Witness ==
    /\ Called("permits") /\ RoleIsArray(call.role)
    /\ call.data = [balance |-> highValueThreshold]
    /\ \E k, l \in 1..Len(evals) :
        evals[k].role = Str("Manager") /\ evals[l].role = Str("Teller")

AbstractFindEntriesThrows_SecurableFirst(policy, role) == Len(policy) > 0

\* whether _findEntries throws when _filterSecurable is not overridden
AbstractFindEntriesThrows(policy, role) ==
    \E i \in 1..Len(policy) : _filterRoles(policy[i], role)

\* permits or explicitlyDenies (permit = FALSE) of the abstract base
AbstractInterrogation(policy, role, securable, data, permit) ==
    LET names == IF RoleIsArray(role) THEN role.list ELSE << role.name >>
        threw == \E k \in 1..Len(names) : AbstractFindEntriesThrows(policy, names[k])
        \* no entry passed the role filter: every scan runs over no entries
        scan(k) == _interrogate(<< >>, names[k], securable, data, permit).result
    IN  [threw |-> threw,
         result |-> ~threw /\ \E k \in 1..Len(names) : scan(k)]

\* new AbstractRoleBasedAccessControlRepository(arg)
ConstructAbstract ==
    /\ pc = "new"
    /\ LET made == AbstractConstructor(arg)
       IN  /\ error' = made.error
           /\ _policy' = made.policy
           /\ pc' = IF made.error = "none" THEN "ready" ELSE "failed"
    /\ UNCHANGED <<arg, call, result, evals>>
    /\ UNCHANGED aux

AbstractCall(op, permit) ==
    /\ pc = "ready"
    /\ \E role \in Roles, securable \in Securables, data \in Datas :
        LET answer == AbstractInterrogation(_policy, role, securable, data, permit)
        IN  /\ call' = [op |-> op, role |-> role, securable |-> securable,
                        data |-> data]
            /\ result' = answer.result
            /\ error' = IF answer.threw THEN "MethodNotImplementedError" ELSE "none"
            /\ pc' = IF answer.threw THEN "threw" ELSE "called"
    /\ evals' = << >>
    /\ UNCHANGED <<arg, _policy>>
    /\ UNCHANGED aux

AbstractPermits == AbstractCall("permits", TRUE)
AbstractExplicitlyDenies == AbstractCall("explicitlyDenies", FALSE)

\* the caller catches the error
Caught ==
    /\ pc = "threw"
    /\ pc' = "ready"
    /\ error' = "none"
    /\ call' = NoCall
    /\ UNCHANGED <<arg, _policy, result, evals>>
    /\ UNCHANGED aux

NextAbstract ==
    ConstructAbstract \/ AbstractPermits \/ AbstractExplicitlyDenies \/ Return \/ Caught

SpecAbstract == Init /\ [][NextAbstract]_vars

(***************************************************************************)
(* C13, as stated: when the abstract base is used directly, every permits  *)
(* and every explicitlyDenies call signals the matcher-not-implemented     *)
(* error instead of returning a boolean, for every policy and every role.  *)
(***************************************************************************)
C13_EveryCallThrows ==
    pc \in { "called", "threw" }
        => pc = "threw" /\ error = "MethodNotImplementedError"

(***************************************************************************)
(* C13, amended: when the abstract base is used directly, a permits or     *)
(* explicitlyDenies call signals the matcher-not-implemented error exactly *)
(* when the role pattern of some policy entry matches the requested role   *)
(* (for a list: one of its roles); otherwise (an empty policy, an empty    *)
(* list of roles, no role pattern that matches) it returns false.          *)
(***************************************************************************)
SomeRolePatternMatches ==
    \E r \in RequestRoles : \E i \in 1..Len(_policy) : Test(_policy[i].roles, r)

C13_ThrowsIffARolePatternMatches ==
    pc \in { "called", "threw" }
        => /\ pc = "threw" <=> SomeRolePatternMatches
           /\ pc = "threw" => error = "MethodNotImplementedError"
           /\ pc = "called" => result = FALSE /\ error = "none"

\* the first entry's role pattern does not match, the second one's does
C13_Witness ==
    /\ pc = "threw" /\ call.op = "permits" /\ SingleRole /\ Len(_policy) = 2
    /\ ~Test(_policy[1].roles, call.role.name)
    /\ Test(_policy[2].roles, call.role.name)

(***************************************************************************)
(* The caller keeps the array it handed to the constructor and changes it  *)
(* afterwards.  _scrubPolicy builds this._policy with policy.map and       *)
(* copies every entry with { ...entry }.                                   *)
(***************************************************************************)
\* the entries the caller writes: one without roles and strategy, one with both
CallerEntries ==
    { e \in RawEntries :
        /\ e.classes = Lit("Foo")
        /\ \/ e.roles = NoRegExp /\ e.strategy = Undefined
           \/ e.roles = Lit("Manager") /\ e.strategy = Bool(TRUE) }

\* faulty variant: this._policy is the caller's array itself
HeldAfterCallerChange_SameArray(own, callers) == callers

\* this._policy after the caller changed its array: Array.prototype.map
\* returned a new array, which only the repository references
HeldAfterCallerChange(own, callers) == own

CallerChanges(list) ==
    /\ pc = "ready"
    /\ callersList' = list
    /\ _policy' = HeldAfterCallerChange(_policy, list)
    /\ UNCHANGED <<arg, pc, error, call, result, evals, lastIndex, noted>>

\* policy.push(entry)
CallerPush ==
    /\ Len(callersList) < MaxPolicyLen
    /\ \E e \in CallerEntries : CallerChanges(Append(callersList, e))

\* policy.pop()
CallerPop ==
    /\ Len(callersList) > 0
    /\ CallerChanges(SubSeq(callersList, 1, Len(callersList) - 1))

\* policy[i] = entry
CallerReplace ==
    \E i \in 1..Len(callersList), e \in CallerEntries :
        /\ callersList[i] # e
        /\ CallerChanges([callersList EXCEPT ![i] = e])

InitCaller ==
    \E l \in SeqsUpTo(CallerEntries, MaxPolicyLen) :
        InitWith([value |-> Array, items |-> l])

NextCaller ==
    \/ Construct \/ Permits \/ ExplicitlyDenies \/ Return
    \/ CallerPush \/ CallerPop \/ CallerReplace

SpecCaller == InitCaller /\ [][NextCaller]_vars

(***************************************************************************)
(* C12: policy immutability.  In every state after construction, whatever  *)
(* permits/explicitlyDenies calls were made and however the caller has     *)
(* since added, removed or replaced entries of its own list, the           *)
(* repository's entry list has the length and the order of the list given  *)
(* to the constructor, and each entry has that list's securable fields,    *)
(* role pattern and strategy (an absent role pattern being /^.+$/ and an   *)
(* absent or false strategy being false, as construction made them).       *)
(***************************************************************************)
C12_PolicyIsTheConstructionTimeList ==
    pc \in { "ready", "called" }
        => /\ Len(_policy) = Len(arg.items)
           /\ \A i \in 1..Len(_policy) :
                /\ _policy[i].classes = arg.items[i].classes
                /\ _policy[i].methods = arg.items[i].methods
                /\ _policy[i].roles =
                      IF arg.items[i].roles = NoRegExp THEN DotPlus
                      ELSE arg.items[i].roles
                /\ _policy[i].strategy =
                      IF arg.items[i].strategy \in { Undefined, Bool(FALSE) }
                      THEN Bool(FALSE)
                      ELSE arg.items[i].strategy

\* an answer is given after the caller shortened its list and replaced an entry
C12_Witness ==
    /\ pc = "called"
    /\ Len(arg.items) = 2 /\ Len(callersList) = 1
    /\ arg.items[1].roles = NoRegExp /\ arg.items[2].roles # NoRegExp
    /\ callersList[1] # arg.items[1]

(***************************************************************************)
(* Patterns with the g flag.  { ...entry } copies references, so the       *)
(* repository tests the caller's RegExp objects, and RegExp.prototype.test *)
(* on a g (or y) RegExp starts at its lastIndex and writes lastIndex back. *)
(* lastIndex[i] holds the lastIndex of entry i's roles, classes and        *)
(* methods objects, counted in the units strings are made of here.         *)
(***************************************************************************)
\* /^word$/g
GlobalLit(word) == [kind |-> "lit/g", lit |-> Str(word)]
IsGlobal(re) == re.kind = "lit/g"
WithoutFlags(re) == IF IsGlobal(re) THEN [kind |-> "lit", lit |-> re.lit] ELSE re

\* re.test(s) with re.lastIndex = li: what it returns and the lastIndex it
\* leaves.  Without the g flag lastIndex is neither read nor written.  With
\* it, ^ can match at index 0 only: a search from li > 0 fails and resets
\* lastIndex to 0; a match sets lastIndex to the end of the match.
TestFrom(re, s, li) ==
    IF ~IsGlobal(re)
    THEN [found |-> Test(re, s), lastIndex |-> li]
    ELSE IF li = 0 /\ Test(WithoutFlags(re), s)
    THEN [found |-> TRUE, lastIndex |-> Len(s)]
    ELSE [found |-> FALSE, lastIndex |-> 0]

\* _filterRoles(...) && _filterSecurable(...) on one entry: each test runs
\* only if the one before it succeeded
_filterEntryFrom(entry, li, role, securable) ==
    LET roles == TestFrom(entry.roles, role, li.roles)
        classes == IF roles.found
                   THEN TestFrom(entry.classes, securable.class, li.classes)
                   ELSE [found |-> FALSE, lastIndex |-> li.classes]
        methods == IF classes.found
                   THEN TestFrom(entry.methods, securable.method, li.methods)
                   ELSE [found |-> FALSE, lastIndex |-> li.methods]
    IN  [found |-> methods.found,
         lastIndex |-> [roles |-> roles.lastIndex, classes |-> classes.lastIndex,
                        methods |-> methods.lastIndex]]

\* this._policy.filter(...) from entry i on: the entries kept and every lastIndex
RECURSIVE _findEntriesFrom(_, _, _, _, _)
_findEntriesFrom(policy, li, role, securable, i) ==
    IF i > Len(policy)
    THEN [entries |-> << >>, lastIndex |-> li]
    ELSE LET here == _filterEntryFrom(policy[i], li[i], role, securable)
             rest == _findEntriesFrom(policy, [li EXCEPT ![i] = here.lastIndex],
                                      role, securable, i + 1)
         IN  [entries |-> IF here.found
                          THEN << policy[i] >> \o rest.entries
                          ELSE rest.entries,
              lastIndex |-> rest.lastIndex]

\* permits (op = "permits") or explicitlyDenies with a single role name
interrogateOneFrom(op, policy, li, role, securable, data) ==
    LET found == _findEntriesFrom(policy, li, role, securable, 1)
        denied == _explicitlyDenies(found.entries, role, securable, data)
        permitted == _permits(found.entries, role, securable, data)
    IN  [result |-> IF op = "permits"
                    THEN ~denied.result /\ permitted.result
                    ELSE denied.result,
         lastIndex |-> found.lastIndex]

\* every lastIndex after _findEntries ran for each of `roles` in turn
RECURSIVE lastIndexAfter(_, _, _, _)
lastIndexAfter(policy, li, roles, securable) ==
    IF roles = << >>
    THEN li
    ELSE lastIndexAfter(policy,
                        _findEntriesFrom(policy, li, Head(roles), securable, 1).lastIndex,
                        Tail(roles), securable)

\* role.map(it => this.permits(...)) or role.map(it => this.explicitlyDenies(...)):
\* the k-th call meets the lastIndex the k - 1 calls before it left
MapFrom(op, policy, li, roles, securable, data) ==
    [k \in 1..Len(roles) |->
        interrogateOneFrom(op, policy,
                           lastIndexAfter(policy, li, SubSeq(roles, 1, k - 1), securable),
                           roles[k], securable, data).result]

permitsFrom(policy, li, role, securable, data) ==
    IF ~RoleIsArray(role)
    THEN interrogateOneFrom("permits", policy, li, role.name, securable, data)
    ELSE IF IncludesTrue(MapFrom("explicitlyDenies", policy, li, role.list, securable, data))
    THEN [result |-> FALSE,
          lastIndex |-> lastIndexAfter(policy, li, role.list, securable)]
    ELSE [result |->
              IncludesTrue(MapFrom("permits", policy,
                                   lastIndexAfter(policy, li, role.list, securable),
                                   role.list, securable, data)),
          lastIndex |-> lastIndexAfter(policy, li, role.list \o role.list, securable)]

explicitlyDeniesFrom(policy, li, role, securable, data) ==
    IF ~RoleIsArray(role)
    THEN interrogateOneFrom("explicitlyDenies", policy, li, role.name, securable, data)
    ELSE [result |->
              IncludesTrue(MapFrom("explicitlyDenies", policy, li, role.list,
                                   securable, data)),
          lastIndex |-> lastIndexAfter(policy, li, role.list, securable)]

\* policies of boolean strategies, with and without the g flag
GlobalEntries ==
    { [roles |-> r, classes |-> Lit("Foo"), methods |-> Lit("bar"),
       strategy |-> Bool(b)] :
        r \in { Lit("Manager"), GlobalLit("Manager") }, b \in BOOLEAN }
      \cup { [roles |-> Lit("Manager"), classes |-> GlobalLit("Foo"),
              methods |-> Lit("bar"), strategy |-> Bool(FALSE)] }

GlobalRoles ==
    { RoleName(Str("Manager")) }
      \cup { RoleList(l) : l \in SeqsUpTo({ Str("Manager") }, MaxRoles) }
GlobalSecurables ==
    { [class |-> Str("Foo"), method |-> Str("bar")],
      [class |-> Str("Foo"), method |-> Str("snafu")] }

InitGlobal ==
    \E l \in SeqsUpTo(GlobalEntries, MaxPolicyLen) :
        InitWith([value |-> Array, items |-> l])

InterrogateGlobal(op) ==
    /\ pc = "ready"
    /\ \E role \in GlobalRoles, securable \in GlobalSecurables :
        \E data \in { [balance |-> 0] } :
        \E answer \in { IF op = "permits"
                      THEN permitsFrom(_policy, lastIndex, role, securable, data)
                      ELSE explicitlyDeniesFrom(_policy, lastIndex, role, securable, data) } :
            /\ call' = [op |-> op, role |-> role, securable |-> securable,
                        data |-> data]
            /\ result' = answer.result
            /\ lastIndex' = answer.lastIndex
    /\ pc' = "called"
    /\ evals' = << >>
    /\ UNCHANGED <<arg, error, _policy, callersList, noted>>

PermitsGlobal == InterrogateGlobal("permits")
ExplicitlyDeniesGlobal == InterrogateGlobal("explicitlyDenies")

\* the caller takes the answer and keeps it to compare with later answers
Note ==
    /\ pc = "called"
    /\ noted' = [call |-> call, result |-> result]
    /\ pc' = "ready"
    /\ call' = NoCall
    /\ result' = FALSE
    /\ evals' = << >>
    /\ UNCHANGED <<arg, error, _policy, callersList, lastIndex>>

NextGlobal == Construct \/ PermitsGlobal \/ ExplicitlyDeniesGlobal \/ Return \/ Note

SpecGlobal == InitGlobal /\ [][NextGlobal]_vars

(***************************************************************************)
(* C11: idempotence.  For every policy the constructor accepts, whatever   *)
(* pattern objects it holds, a permits or explicitlyDenies call with the   *)
(* inputs of an earlier call on the same repository returns what that      *)
(* earlier call returned, whichever calls were made in between.            *)
(***************************************************************************)
C11_SameInputsSameAnswer ==
    pc = "called" /\ noted.call = call => result = noted.result

(***************************************************************************)
(* C15: mutual exclusion.  permits and explicitlyDenies are never both     *)
(* true for the same request (role or role list, securable and data) on    *)
(* the same repository.                                                    *)
(***************************************************************************)
C15_NeverBothTrue ==
    ~ /\ pc = "called"
      /\ noted.call.op \in { "permits", "explicitlyDenies" }
      /\ noted.call.op # call.op
      /\ noted.call.role = call.role
      /\ noted.call.securable = call.securable
      /\ noted.call.data = call.data
      /\ noted.result
      /\ result
====
